---- MODULE Spec2Model ----
(***************************************************************************)
(* A model of mongodb-dumper: the Value Normalizer (SimplifyMap), the      *)
(* Prefix Dispatcher (BadgerItrToJSON) and the sync loop                    *)
(* (SyncingService.Start) that mirrors a badger store into a MongoDB        *)
(* collection in chunked bulk upserts; the sync loop next to the node that  *)
(* writes the store, and the start and the shutdown of the dumper (Run,     *)
(* Node.Start, Node.Stop).                                                  *)
(***************************************************************************)
EXTENDS Naturals, Integers, Sequences, FiniteSets, TLC

VARIABLES
    pc,               \* position of the sync goroutine in Start
    store,            \* the live badger store: a key-ordered sequence of records
    snapshot,         \* the read snapshot of the pass in progress
    cursor,           \* itr: index into snapshot of the record under the cursor
    ops,              \* the pending batch (var ops []mongo.WriteModel)
    totalIterations,  \* the pending-operation counter
    collection,       \* the destination collection: a set of stored documents
    calls,            \* the bulk-write calls issued in the current pass, oldest first
    lastErr,          \* outcome of the latest bulk-write call ("none" before the first)
    clock,            \* wall clock read by time.Now()
    passes,           \* completed passes
    failures,         \* bulk-write calls that returned an error so far
    txnOpen,          \* whether the read transaction of DB.View is open
    forever,          \* whether the run is followed past the bounds of the model
    writes,           \* writes the node has committed to the store so far
    mongoClient,      \* syncSrv.mongoClient: "nil" or "client"
    mainpc,           \* position of the main goroutine in Run
    dIn,              \* normalizer/dispatcher harness: the record under test
    dOut,             \* harness: result of Decode on dIn
    nIn,              \* harness: field map handed to SimplifyMap
    nOnce,            \* harness: result of the first SimplifyMap
    nTwice,           \* harness: result of SimplifyMap applied to nOnce
    dpc               \* harness: position

vars == <<pc, store, snapshot, cursor, ops, totalIterations, collection, calls,
          lastErr, clock, passes, failures, txnOpen, forever, writes, mongoClient,
          mainpc, dIn, dOut, nIn, nOnce, nTwice, dpc>>

syncVars == <<pc, store, snapshot, cursor, ops, totalIterations, collection,
              calls, lastErr, clock, passes, failures, txnOpen>>

\* What the sync loop never assigns
nodeVars == <<forever, writes, mongoClient, mainpc>>

harnessVars == <<dIn, dOut, nIn, nOnce, nTwice, dpc>>

-----------------------------------------------------------------------------
(* Bytes and the string conversions of the Go runtime and of core/lib.     *)

HexChars == <<"0","1","2","3","4","5","6","7","8","9","a","b","c","d","e","f">>

HexByte(b) == HexChars[(b \div 16) + 1] \o HexChars[(b % 16) + 1]

RECURSIVE HexEncode(_)
\* hex.EncodeToString, also BlockHash.String()
HexEncode(bs) == IF bs = <<>> THEN "" ELSE HexByte(Head(bs)) \o HexEncode(Tail(bs))

\* string(bytes): every byte becomes one character; a letter for 97..122,
\* an escape otherwise
ByteChar(b) ==
    IF b >= 97 /\ b <= 112 THEN
        <<"a","b","c","d","e","f","g","h","i","j","k","l","m","n","o","p">>[b - 96]
    ELSE "\\x" \o HexByte(b)

RECURSIVE BytesToString(_)
BytesToString(bs) ==
    IF bs = <<>> THEN "" ELSE ByteChar(Head(bs)) \o BytesToString(Tail(bs))

\* lib.PkToStringBoth: the mainnet and the testnet Base58Check forms joined;
\* the Base58Check digits are stood for by the hex digits of the key
PkToStringBoth(bs) == "BC" \o HexEncode(bs) \o ":tBC" \o HexEncode(bs)

\* time.Now().String()
TimeString(now) == "T+" \o ToString(now)

\* lib.UtxoType.String()
UtxoTypeString(n) ==
    CASE n = 0 -> "UtxoTypeOutput"
      [] n = 1 -> "UtxoTypeBlockReward"
      [] n = 2 -> "UtxoTypeBitcoinBurn"
      [] OTHER -> "UtxoTypeUnknown"

RECURSIVE BigEndian(_)
\* binary.BigEndian.UintNN of a byte sequence of the right width
BigEndian(bs) ==
    IF bs = <<>> THEN 0
    ELSE BigEndian(SubSeq(bs, 1, Len(bs) - 1)) * 256 + bs[Len(bs)]

-----------------------------------------------------------------------------
(* Go values held in a map[string]interface{}: a dynamic type t and a      *)
(* payload v.                                                              *)

\* A nil pointer; a non-nil pointer holds the bytes of the array it points
\* to, a non-nil *big.Int the number in a one-element sequence
NilPtr == <<>>

GoNil          == [t |-> "nil", v |-> 0]
GoBytes(bs)    == [t |-> "bytes", v |-> bs]
GoString(s)    == [t |-> "string", v |-> s]
GoUint(n)      == [t |-> "uint", v |-> n]
GoBool(b)      == [t |-> "bool", v |-> b]
GoUtxoType(n)  == [t |-> "UtxoType", v |-> n]
GoBlockHash(h) == [t |-> "BlockHash", v |-> h]
GoPBlockHash(h) == [t |-> "pBlockHash", v |-> h]
GoPBlockNode(p) == [t |-> "pBlockNode", v |-> p]
GoPBigInt(n)   == [t |-> "pBigInt", v |-> n]
GoStakeEntry   == [t |-> "StakeEntry", v |-> 0]
GoPPKID(p)     == [t |-> "pPKID", v |-> p]
GoMap(m)       == [t |-> "map", v |-> m]
GoList(l)      == [t |-> "list", v |-> l]

-----------------------------------------------------------------------------
(* The Value Normalizer.                                                   *)

Panic == [ok |-> FALSE, m |-> <<>>]
Done(m) == [ok |-> TRUE, m |-> m]

PublicKeyNames ==
    {"PosterPublicKey", "FollowedPublicKey", "FollowedPKID", "FollowerPKID",
     "FollowedPublicKeys", "HoldingPublicKey", "PublicKey", "SenderPublicKey",
     "RecipientPublicKey"}

TextNames == {"Body", "EncryptedText", "Username", "Description", "ProfilePic"}

\* The outcome of one field: whether the step panics, whether the key stays
\* in the map, its value, and the ParentHash entry it adds (parent = TRUE)
FieldOut(panic, keep, v, parent, pv) ==
    [panic |-> panic, keep |-> keep, v |-> v, parent |-> parent, pv |-> pv]

FieldPanic == FieldOut(TRUE, FALSE, GoNil, FALSE, GoNil)

\* One hash sub-field of the Header sub-map (the two ifs of case "Header")
HeaderHash(subm, name) ==
    IF name \in DOMAIN subm /\ subm[name].t = "string" THEN Done(subm[name])
    ELSE IF name \in DOMAIN subm /\ subm[name].t = "pBlockHash"
                                  /\ subm[name].v # NilPtr
         THEN Done(GoString(HexEncode(subm[name].v)))
         ELSE Panic

\* switch key: val is the ranged value, cur the entry after the type switch
\* (GoNil when the type switch deleted it)
KeySwitch(key, val, cur) ==
    CASE key = "PKID" ->
            IF cur.t = "bytes" THEN Done(GoString(PkToStringBoth(cur.v))) ELSE Panic
      [] key \in {"HODLerPKID", "CreatorPKID"} ->
            IF val.t = "pPKID" /\ val.v # NilPtr
            THEN Done(GoString(PkToStringBoth(val.v))) ELSE Panic
      [] key \in PublicKeyNames ->
            IF cur.t = "bytes" THEN Done(GoString(PkToStringBoth(cur.v))) ELSE Panic
      [] key = "ParentStakeID" ->
            IF cur.t = "bytes" THEN Done(GoString(HexEncode(cur.v))) ELSE Panic
      [] key \in TextNames ->
            IF cur.t = "bytes" THEN Done(GoString(BytesToString(cur.v))) ELSE Panic
      [] key = "Header" ->
            IF cur.t # "map" THEN Panic
            ELSE LET p == HeaderHash(cur.v, "PrevBlockHash")
                     r == HeaderHash(cur.v, "TransactionMerkleRoot")
                 IN IF ~p.ok \/ ~r.ok THEN Panic
                    ELSE Done(GoMap(("PrevBlockHash" :> p.m) @@
                                    ("TransactionMerkleRoot" :> r.m) @@ cur.v))
      [] key = "Txns" ->
            IF cur.t = "list" THEN Done(cur) ELSE Panic
      [] OTHER -> Done(cur)

KeySwitchNames ==
    {"PKID", "HODLerPKID", "CreatorPKID", "ParentStakeID", "Header", "Txns"}
        \cup PublicKeyNames \cup TextNames

RECURSIVE SimplifyMap(_, _)

\* switch val.(type): whether it panics (a nested SimplifyMap did), whether
\* it deleted the entry, the entry after it (cur), and the ParentHash entry
\* it added (parent, pv)
TypeSwitch(val, now) ==
    CASE val.t = "map" ->
            [sub |-> SimplifyMap(val.v, now), deleted |-> FALSE, cur |-> GoNil,
             parent |-> FALSE, pv |-> GoNil]
      [] val.t = "UtxoType" ->
            [sub |-> Panic, deleted |-> FALSE, cur |-> GoString(UtxoTypeString(val.v)),
             parent |-> FALSE, pv |-> GoNil]
      [] val.t = "BlockHash" ->
            [sub |-> Panic, deleted |-> FALSE, cur |-> GoString(HexEncode(val.v)),
             parent |-> FALSE, pv |-> GoNil]
      [] val.t = "pBlockHash" ->
            [sub |-> Panic, deleted |-> FALSE,
             cur |-> IF val.v = NilPtr THEN GoNil ELSE GoString(HexEncode(val.v)),
             parent |-> FALSE, pv |-> GoNil]
      [] val.t = "pBlockNode" ->
            [sub |-> Panic, deleted |-> TRUE, cur |-> GoNil, parent |-> TRUE,
             pv |-> IF val.v = NilPtr THEN GoNil ELSE GoString(HexEncode(val.v))]
      [] val.t = "pBigInt" ->
            [sub |-> Panic, deleted |-> FALSE,
             cur |-> IF val.v = NilPtr THEN GoNil ELSE GoString(ToString(val.v[1])),
             parent |-> FALSE, pv |-> GoNil]
      [] val.t = "StakeEntry" ->
            [sub |-> Panic, deleted |-> TRUE, cur |-> GoNil, parent |-> FALSE,
             pv |-> GoNil]
      [] OTHER ->
            [sub |-> Panic, deleted |-> FALSE, cur |-> val, parent |-> FALSE,
             pv |-> GoNil]

\* The entry as the key switch reads it: (*docMap)[key] after the type switch
AfterTypeSwitch(val, ts) ==
    IF val.t = "map" THEN (IF ts.sub.ok THEN GoMap(ts.sub.m) ELSE GoNil) ELSE ts.cur

\* The outcome of the entry once both switches have run
AfterKeySwitch(key, ts, ks) ==
    IF ~ks.ok THEN FieldPanic
    ELSE FieldOut(FALSE, ~ts.deleted \/ key \in KeySwitchNames, ks.m, ts.parent, ts.pv)

BothSwitches(key, val, ts) ==
    IF val.t = "map" /\ ~ts.sub.ok THEN FieldPanic
    ELSE AfterKeySwitch(key, ts, KeySwitch(key, val, AfterTypeSwitch(val, ts)))

\* The body of the range loop for one entry: nil entries are skipped, the
\* others go through the type switch, then the key switch
SimplifyField(key, val, now) ==
    IF val.t = "nil" THEN FieldOut(FALSE, TRUE, val, FALSE, GoNil)
    ELSE BothSwitches(key, val, TypeSwitch(val, now))

\* A time stamp stored under a name of its own choosing
TimeEntryLower(now) == "time" :> GoString(TimeString(now))

\* (*docMap)["Time"] = time.Now().String()
TimeEntry(now) == "Time" :> GoString(TimeString(now))

\* The map once every entry is processed (outs: the outcome per key), with
\* the time stamp set as the last step
Assemble(outs, now) ==
    IF \E k \in DOMAIN outs : outs[k].panic THEN Panic
    ELSE Done(TimeEntry(now) @@
              [k \in {"ParentHash"} \cap {"ParentHash" : a \in {x \in DOMAIN outs : outs[x].parent}}
                 |-> outs[CHOOSE a \in DOMAIN outs : outs[a].parent].pv] @@
              [k \in {x \in DOMAIN outs : outs[x].keep} |-> outs[k].v])

\* SimplifyMap(docMap): the map after the call, or Panic when a type
\* assertion or a nil dereference stops it
SimplifyMap(m, now) ==
    Assemble([k \in DOMAIN m |-> SimplifyField(k, m[k], now)], now)

-----------------------------------------------------------------------------
(* json.Marshal of a docMap, and json.Unmarshal into                       *)
(* map[string]interface{}.                                                 *)

\* encoding/base64 of a []byte, its digits stood for by hex digits
Base64(bs) == "b64:" \o HexEncode(bs)

RECURSIVE Marshal(_)
\* json.Marshal of one Go value: [j |-> JSON kind, v |-> payload]
Marshal(x) ==
    CASE x.t = "nil" -> [j |-> "null", v |-> 0]
      [] x.t = "string" -> [j |-> "string", v |-> x.v]
      [] x.t = "bytes" -> [j |-> "string", v |-> Base64(x.v)]
      [] x.t \in {"uint", "UtxoType"} -> [j |-> "number", v |-> x.v]
      [] x.t = "bool" -> [j |-> "bool", v |-> x.v]
      [] x.t \in {"BlockHash", "pBlockHash", "pPKID", "pBlockNode"} ->
            IF x.v = NilPtr THEN [j |-> "null", v |-> 0]
            ELSE [j |-> "array",
                  v |-> [i \in 1..Len(x.v) |-> [j |-> "number", v |-> x.v[i]]]]
      [] x.t = "pBigInt" ->
            IF x.v = NilPtr THEN [j |-> "null", v |-> 0]
            ELSE [j |-> "number", v |-> x.v[1]]
      [] x.t = "StakeEntry" -> [j |-> "object", v |-> <<>>]
      [] x.t = "list" ->
            [j |-> "array", v |-> [i \in 1..Len(x.v) |-> Marshal(x.v[i])]]
      [] x.t = "map" ->
            [j |-> "object", v |-> [k \in DOMAIN x.v |-> Marshal(x.v[k])]]

RECURSIVE Unmarshal(_)
\* json.Unmarshal into interface{}: numbers become float64, arrays
\* []interface{}, objects map[string]interface{}
Unmarshal(jv) ==
    CASE jv.j = "null" -> GoNil
      [] jv.j = "string" -> GoString(jv.v)
      [] jv.j = "number" -> [t |-> "float64", v |-> jv.v]
      [] jv.j = "bool" -> GoBool(jv.v)
      [] jv.j = "array" -> GoList([i \in 1..Len(jv.v) |-> Unmarshal(jv.v[i])])
      [] jv.j = "object" -> GoMap([k \in DOMAIN jv.v |-> Unmarshal(jv.v[k])])

-----------------------------------------------------------------------------
(* The Prefix Dispatcher.  A record is                                     *)
(*   key    the key bytes, key[1] being the tag                            *)
(*   kcap   the capacity of the key slice handed out by the iterator       *)
(*   junk   the byte found in the backing array beyond the key             *)
(*   val    the value bytes                                                *)
(*   gob    what the value deserializes to: NoStruct, or the type and the  *)
(*          structs.Map of the decoded struct                              *)
(*   vlogOk whether the value can be read (ValueCopy returns no error)     *)

NoStruct == [type |-> "none", f |-> <<>>]

Crash == [kind |-> "panic", doc |-> <<>>]
NoDoc == [kind |-> "nil", doc |-> <<>>]

\* docJSON, _ := json.Marshal(docMap); return docJSON
ReturnJSON(docMap) == [kind |-> "doc", doc |-> Marshal(GoMap(docMap))]

Bad == [ok |-> FALSE, b |-> <<>>]
Good(bs) == [ok |-> TRUE, b |-> bs]

\* key[lo:hi]: in range up to the capacity of the slice, not its length
KeySlice(rec, lo, hi) ==
    LET n == Len(rec.key)
        backing == rec.key \o [i \in 1..(rec.kcap - n) |-> rec.junk]
    IN IF lo <= hi /\ hi <= rec.kcap THEN Good(SubSeq(backing, lo + 1, hi))
       ELSE Bad

\* key[lo:]
KeyFrom(rec, lo) ==
    IF lo <= Len(rec.key) THEN Good(SubSeq(rec.key, lo + 1, Len(rec.key))) ELSE Bad

\* var h lib.BlockHash; copy(h[:], src)
CopyHash(src) ==
    [i \in 1..32 |-> IF i <= Len(src) THEN src[i] ELSE 0]

\* var ret lib.BlockHash; itr.Item().ValueCopy(ret[:]): the value lands in
\* ret when it fits in its 32 bytes, in a fresh buffer otherwise
ValueCopyHash(val) ==
    IF Len(val) <= 32 THEN CopyHash(val) ELSE [i \in 1..32 |-> 0]

\* lib.DecodeUint64 = binary.BigEndian.Uint64: needs 8 bytes
DecodeUint64OK(bs) == Len(bs) >= 8
DecodeUint64(bs) == BigEndian(SubSeq(bs, 1, 8))

\* binary.BigEndian.Uint32
Uint32OK(bs) == Len(bs) >= 4
Uint32(bs) == BigEndian(SubSeq(bs, 1, 4))

\* gob.NewDecoder(...).Decode(&ret), msg.FromBytes, lib.DeserializeBlockNode
Deserializes(rec, type) == rec.gob.type = type

Meta(meta, prefix) ==
    [MongoMeta |-> GoString(meta), BadgerKeyPrefix |-> GoString(prefix)]

\* The return after SimplifyMap: the metadata assignments (extra), then
\* json.Marshal
Finish(extra, sm) == IF ~sm.ok THEN Crash ELSE ReturnJSON(extra @@ sm.m)

\* docMap := structs.Map(ret); SimplifyMap(&docMap); docMap["MongoMeta"] = ..;
\* docMap["BadgerKeyPrefix"] = ..
StructDoc(rec, type, meta, prefix, now) ==
    IF ~Deserializes(rec, type) THEN NoDoc
    ELSE Finish(Meta(meta, prefix), SimplifyMap(rec.gob.f, now))

\* docMap := map[string]interface{}{...}; SimplifyMap(&docMap)
LiteralDoc(docMap, now) == Finish(<<>>, SimplifyMap(docMap, now))

\* case 0: _PrefixBlockHashToBlock
Case0(rec, now) ==
    IF ~Deserializes(rec, "MsgBitCloutBlock") THEN NoDoc
    ELSE Finish(Meta("A bitclout block and its corresponding blockhash.",
                     "_PrefixBlockHashToBlock:0"),
                SimplifyMap(("BlockHash" :> GoBlockHash(CopyHash(KeyFrom(rec, 1).b)))
                                @@ rec.gob.f, now))

\* case 1: _PrefixHeightHashToNodeInfo
Case1(rec, now) ==
    StructDoc(rec, "BlockNode", "A block node in the bitclout blockchain graph.",
              "_PrefixHeightHashToNodeInfo:1", now)

\* case 2: _PrefixBitcoinHeightHashToNodeInfo
Case2(rec, now) ==
    StructDoc(rec, "BlockNode", "A block node in the bitcoin blockchain graph.",
              "_PrefixBitcoinHeightHashToNodeInfo:2", now)

\* case 3: _KeyBestBitCloutBlockHash
Case3(rec, now) ==
    ReturnJSON([Hash |-> GoString(HexEncode(ValueCopyHash(rec.val))),
                MongoMeta |-> GoString("The hash of the front of the best BitClout Chain."),
                BadgerKeyPrefix |-> GoString("_KeyBestBitCloutBlockHash:3"),
                Time |-> GoString(TimeString(now))])

\* case 4: _KeyBestBitcoinHeaderHash
Case4(rec, now) ==
    ReturnJSON([Hash |-> GoString(HexEncode(ValueCopyHash(rec.val))),
                MongoMeta |-> GoString("The hash of the front of the best Bitcoin Chain."),
                BadgerKeyPrefix |-> GoString("_KeyBestBitcoinHeaderHash:4"),
                Time |-> GoString(TimeString(now))])

\* case 5: _PrefixUtxoKeyToUtxoEntry
Case5(rec, now) ==
    StructDoc(rec, "UtxoEntry", "A UTXO Entry.", "_PrefixUtxoKeyToUtxoEntry:5", now)

\* case 6: _PrefixPositionToUtxoKey
Case6(rec, now) ==
    StructDoc(rec, "UtxoKey", "A UTXO Key.", "_PrefixPositionToUtxoKey:6", now)

\* case 7: _PrefixPubKeyUtxoKey
Case7(rec, now) ==
    LET pubKey == KeySlice(rec, 1, 34)
        txid == KeySlice(rec, 34, 66)
        rest == KeyFrom(rec, 66)
    IN IF ~pubKey.ok \/ ~txid.ok \/ ~rest.ok THEN Crash
       ELSE IF ~Uint32OK(rest.b) THEN Crash
       ELSE Finish(Meta("Public key and UTXO key.", "_PrefixPubKeyUtxoKey:7"),
                   SimplifyMap([TxID |-> GoBlockHash(CopyHash(txid.b)),
                                Index |-> GoUint(Uint32(rest.b)),
                                PublicKey |-> GoBytes(pubKey.b)], now))

\* case 8: _KeyUtxoNumEntries
Case8(rec, now) ==
    IF ~DecodeUint64OK(rec.val) THEN Crash
    ELSE ReturnJSON([UTXOs |-> GoUint(DecodeUint64(rec.val)),
                     MongoMeta |-> GoString("The number of utxo entries in the database."),
                     BadgerKeyPrefix |-> GoString("_KeyUtxoNumEntries:8"),
                     Time |-> GoString(TimeString(now))])

\* case 9: _PrefixBlockHashToUtxoOperations
Case9(rec, now) ==
    ReturnJSON([BadgerKeyPrefix |-> GoString("_PrefixBlockHashToUtxoOperations:9"),
                Time |-> GoString(TimeString(now))])

\* case 10: _KeyNanosPurchased
Case10(rec, now) ==
    IF ~DecodeUint64OK(rec.val) THEN Crash
    ELSE ReturnJSON([Nanos |-> GoUint(DecodeUint64(rec.val)),
                     MongoMeta |-> GoString("The number of nanos purchased thus far."),
                     BadgerKeyPrefix |-> GoString("_KeyNanosPurchased:10"),
                     Time |-> GoString(TimeString(now))])

\* case 11: _PrefixBitcoinBurnTxIDs
Case11(rec, now) ==
    LiteralDoc([TxID |-> GoBlockHash(CopyHash(KeyFrom(rec, 1).b)),
                MongoMeta |-> GoString("A processed bitcoin transaction."),
                BadgerKeyPrefix |-> GoString("_PrefixBitcoinBurnTxIDs:11"),
                Time |-> GoString(TimeString(now))], now)

\* case 12: _PrefixPublicKeyTimestampToPrivateMessage
Case12(rec, now) ==
    StructDoc(rec, "MessageEntry", "An encrypted message between two users.",
              "_PrefixPublicKeyTimestampToPrivateMessage:12", now)

\* case 13: _KeyAccountData
Case13(rec, now) ==
    ReturnJSON([BadgerKeyPrefix |-> GoString("_KeyAccountData:13"),
                Time |-> GoString(TimeString(now))])

\* case 14: _KeyTransactionIndexTip: var ret *lib.BlockHash; ret[:] slices a
\* nil pointer to an array
Case14(rec, now) == Crash

\* case 15: _PrefixTransactionIDToMetadata
Case15(rec, now) ==
    StructDoc(rec, "TransactionMetadata",
              "The transaction metadata for a particular transaction ID.",
              "_PrefixTransactionIDToMetadata:15", now)

\* case 16: _PrefixPublicKeyIndexToTransactionIDs
Case16(rec, now) ==
    ReturnJSON([BadgerKeyPrefix |-> GoString("_KeyAccountData:13"),
                Time |-> GoString(TimeString(now))])

\* case 17: _PrefixPostHashToPostEntry
Case17(rec, now) ==
    StructDoc(rec, "PostEntry", "A User's Post or Subcomment.",
              "_PrefixPostHashToPostEntry:17", now)

\* case 18: _PrefixPosterPublicKeyPostHash
Case18(rec, now) ==
    LET hash == KeyFrom(rec, 34)
        pk == KeySlice(rec, 1, 34)
    IN IF ~hash.ok \/ ~pk.ok THEN Crash
       ELSE LiteralDoc(
              [PublicKey |-> GoBytes(pk.b),
               PostHash |-> GoBlockHash(CopyHash(hash.b)),
               MongoMeta |-> GoString("An association between a PostHash and its corresponding public key."),
               BadgerKeyPrefix |-> GoString("_PrefixPosterPublicKeyPostHash:18")], now)

\* cases 19, 20, 21: an 8-byte number, then a post hash
TstampPostHash(rec, meta, prefix, now) ==
    LET hash == KeyFrom(rec, 9)
        num == KeySlice(rec, 1, 9)
    IN IF ~hash.ok \/ ~num.ok THEN Crash
       ELSE LiteralDoc([TstampNanos |-> GoUint(DecodeUint64(num.b)),
                        PostHash |-> GoBlockHash(CopyHash(hash.b)),
                        MongoMeta |-> GoString(meta),
                        BadgerKeyPrefix |-> GoString(prefix)], now)

\* case 19: _PrefixTstampNanosPostHash
Case19(rec, now) ==
    TstampPostHash(rec,
        "An association between a PostHash and its corresponding time stamp (in nanos).",
        "_PrefixTstampNanosPostHash:19", now)

\* case 20: _PrefixCreatorBpsPostHash
Case20(rec, now) ==
    TstampPostHash(rec,
        "An association between a PostHash and its corresponding creator basis points founder reward.",
        "_PrefixCreatorBpsPostHash:20", now)

\* case 21: _PrefixMultipleBpsPostHash
Case21(rec, now) ==
    TstampPostHash(rec,
        "An association between a PostHash and its multiplier basis points.",
        "_PrefixMultipleBpsPostHash:21", now)

\* case 22: _PrefixCommentParentStakeIDToPostHash
Case22(rec, now) ==
    LET hash == KeyFrom(rec, 42)
        stake == KeySlice(rec, 1, 34)
        num == KeySlice(rec, 34, 42)
    IN IF ~hash.ok \/ ~stake.ok \/ ~num.ok THEN Crash
       ELSE LiteralDoc(
              [ParentStakeID |-> GoBytes(stake.b),
               TstampNanos |-> GoUint(DecodeUint64(num.b)),
               PostHash |-> GoBlockHash(CopyHash(hash.b)),
               MongoMeta |-> GoString("An association between a comment PostHash and it's corresponding parent post stakeID."),
               BadgerKeyPrefix |-> GoString("_PrefixCommentParentStakeIDToPostHash:22")], now)

\* case 23: _PrefixPKIDToProfileEntry
Case23(rec, now) ==
    StructDoc(rec, "ProfileEntry", "A User's Profile.",
              "_PrefixProfilePubKeyToProfileEntry:23", now)

\* case 24: _PrefixProfileStakeToProfilePubKey
Case24(rec, now) ==
    LET num == KeySlice(rec, 1, 9)
        pk == KeyFrom(rec, 9)
    IN IF ~num.ok \/ ~pk.ok THEN Crash
       ELSE LiteralDoc([Stake |-> GoUint(DecodeUint64(num.b)),
                        PublicKey |-> GoBytes(pk.b),
                        MongoMeta |-> GoString("Depricated."),
                        BadgerKeyPrefix |-> GoString("_PrefixProfileStakeToProfilePubKey:24")],
                       now)

\* case 25: _PrefixProfileUsernameToPKID
Case25(rec, now) ==
    LiteralDoc([Username |-> GoBytes(KeyFrom(rec, 1).b),
                PKID |-> GoBytes(rec.val),
                MongoMeta |-> GoString("A user's username and their corresponding PKID."),
                BadgerKeyPrefix |-> GoString("_PrefixProfileUsernameToProfilePubKey:25")],
               now)

\* case 26: _PrefixStakeIDTypeAmountStakeIDIndex
Case26(rec, now) ==
    LET amount == KeySlice(rec, 2, 10)
        stakeID == KeyFrom(rec, 10)
    IN IF ~amount.ok \/ ~stakeID.ok THEN Crash
       ELSE LiteralDoc(
              [StakeType |-> GoString(IF rec.key[2] = 0 THEN "Post" ELSE "Profile"),
               AmountNanos |-> GoBytes(amount.b),
               StakeID |-> GoBytes(stakeID.b),
               MongoMeta |-> GoString("A stake ID and its corresponding stakes nanos."),
               BadgerKeyPrefix |-> GoString("_PrefixStakeIDTypeAmountStakeIDIndex:26")], now)

\* case 27: _KeyUSDCentsPerBitcoinExchangeRate
Case27(rec, now) ==
    IF ~DecodeUint64OK(rec.val) THEN Crash
    ELSE ReturnJSON([USDCentsPerBitcoin |-> GoUint(DecodeUint64(rec.val)),
                     MongoMeta |-> GoString("The exchange rate in USD Cents for a bitcoin."),
                     BadgerKeyPrefix |-> GoString("_KeyUSDCentsPerBitcoinExchangeRate:27"),
                     Time |-> GoString(TimeString(now))])

\* case 28: _PrefixFollowerPKIDToFollowedPKID
Case28(rec, now) ==
    LET a == KeySlice(rec, 1, 34)
        b == KeyFrom(rec, 34)
    IN IF ~a.ok \/ ~b.ok THEN Crash
       ELSE LiteralDoc(
              [FollowerPKID |-> GoBytes(a.b),
               FollowedPKID |-> GoBytes(b.b),
               MongoMeta |-> GoString("A user's PKID (follower) and the PKID of those they follow (followed)."),
               BadgerKeyPrefix |-> GoString("_PrefixFollowerPubKeyToFollowedPubKey:28"),
               Time |-> GoString(TimeString(now))], now)

\* case 29: _PrefixFollowedPubKeyToFollowerPubKey
Case29(rec, now) ==
    LET a == KeySlice(rec, 1, 34)
        b == KeyFrom(rec, 34)
    IN IF ~a.ok \/ ~b.ok THEN Crash
       ELSE LiteralDoc(
              [FollowedPKID |-> GoBytes(a.b),
               FollowerPKID |-> GoBytes(b.b),
               MongoMeta |-> GoString("A user's PKID (followed) and the PKID of those who follow them (follower)."),
               BadgerKeyPrefix |-> GoString("_PrefixFollowedPubKeyToFollowerPubKey:29")], now)

\* case 30: _PrefixLikerPubKeyToLikedPostHash
Case30(rec, now) ==
    LET hash == KeyFrom(rec, 34)
        pk == KeySlice(rec, 1, 34)
    IN IF ~hash.ok \/ ~pk.ok THEN Crash
       ELSE LiteralDoc(
              [PublicKey |-> GoBytes(pk.b),
               LikedPostHash |-> GoBlockHash(CopyHash(hash.b)),
               MongoMeta |-> GoString("A user's public key and the post hash of one of their liked posts."),
               BadgerKeyPrefix |-> GoString("_PrefixLikerPubKeyToLikedPostHash:30")], now)

\* case 31: _PrefixLikedPostHashToLikerPubKey
Case31(rec, now) ==
    LET hash == KeySlice(rec, 1, 34)
        pk == KeySlice(rec, 1, 34)
    IN IF ~hash.ok \/ ~pk.ok THEN Crash
       ELSE LiteralDoc(
              [PublicKey |-> GoBytes(pk.b),
               LikedPostHash |-> GoBlockHash(CopyHash(hash.b)),
               MongoMeta |-> GoString("A PostHash and a corresponding public key of someone who liked that post."),
               BadgerKeyPrefix |-> GoString("_PrefixLikedPostHashToLikerPubKey:31")], now)

\* case 32: _PrefixCreatorBitCloutLockedNanosCreatorPKID
Case32(rec, now) ==
    LET pkid == KeyFrom(rec, 9)
        num == KeySlice(rec, 1, 9)
    IN IF ~pkid.ok \/ ~num.ok THEN Crash
       ELSE LiteralDoc(
              [PKID |-> GoBytes(pkid.b),
               BitCloutLockedNanos |-> GoUint(DecodeUint64(num.b)),
               MongoMeta |-> GoString("The amount of BitClout locked in a particular profile's PKID."),
               BadgerKeyPrefix |-> GoString("_PrefixCreatorBitCloutLockedNanosCreatorPubKeyIIndex:32")], now)

\* case 33: _PrefixHODLerPubKeyCreatorPubKeyToBalanceEntry
Case33(rec, now) ==
    StructDoc(rec, "BalanceEntry",
              "A user's (HODLerPubKey) balance of held (CreatorPubKey).",
              "_PrefixHODLerPubKeyCreatorPubKeyToBalanceEntry:33", now)

\* case 34: _PrefixCreatorPubKeyHODLerPubKeyToBalanceEntry
Case34(rec, now) ==
    StructDoc(rec, "BalanceEntry",
              "A ceator's (CreatorPubKey) hodlers (HODLerPubKey) and their associated balances.",
              "_PrefixCreatorPubKeyHODLerPubKeyToBalanceEntry:34", now)

\* case 35: _PrefixPosterPublicKeyTimestampPostHash
Case35(rec, now) ==
    LET hash == KeyFrom(rec, 42)
        pk == KeySlice(rec, 1, 34)
        num == KeySlice(rec, 34, 42)
    IN IF ~hash.ok \/ ~pk.ok \/ ~num.ok THEN Crash
       ELSE LiteralDoc(
              [PublicKey |-> GoBytes(pk.b),
               PostHash |-> GoBlockHash(CopyHash(hash.b)),
               TStampNanos |-> GoUint(DecodeUint64(num.b)),
               MongoMeta |-> GoString("The PostHash of a post generated by a user's public key and the corresponding time in nanos."),
               BadgerKeyPrefix |-> GoString("_PrefixPosterPublicKeyTimestampPostHash:35")], now)

\* case 36: _PrefixPublicKeyToPKID
Case36(rec, now) ==
    IF ~Deserializes(rec, "PKIDEntry") THEN NoDoc
    ELSE LET f == rec.gob.f
         IN IF ~("PKID" \in DOMAIN f /\ f["PKID"].t = "pPKID" /\ f["PKID"].v # NilPtr)
            THEN Crash
            ELSE Finish(Meta("A mapping of a public key to it's corresponding PKID.",
                             "_PrefixPublicKeyToPKID:36"),
                        SimplifyMap(("PKID" :> GoBytes(f["PKID"].v)) @@ f, now))

\* case 37: _PrefixPKIDToPublicKey
Case37(rec, now) ==
    LET pkid == KeySlice(rec, 1, 34)
    IN IF ~pkid.ok THEN Crash
       ELSE LiteralDoc(
              [PublicKey |-> GoBytes(rec.val),
               PKID |-> GoBytes(pkid.b),
               MongoMeta |-> GoString("A map of a PKID to it's corresponding public key."),
               BadgerKeyPrefix |-> GoString("_PrefixPKIDToPublicKey:37")], now)

\* case 39: _PrefixReclouterPubKeyRecloutedPostHashToRecloutPostHash
Case39(rec, now) ==
    StructDoc(rec, "RecloutEntry",
              "A user's public key and the post hash of one of the post they reclouted",
              "_PrefixReclouterPubKeyRecloutedPostHashToRecloutPostHash:39", now)

\* case 40: _KeyGlobalParams (no SimplifyMap, no Time)
Case40(rec, now) ==
    IF ~Deserializes(rec, "GlobalParamsEntry") THEN NoDoc
    ELSE ReturnJSON(Meta("Global Params Entry", "_KeyGlobalPArams") @@ rec.gob.f)

\* A default case that emits a placeholder document instead of returning nil
DefaultCasePlaceholder(rec, now) == Case9(rec, now)

\* default: return nil
DefaultCase(rec, now) == NoDoc

\* The tags the switch has a case for
SupportedTags == (0..37) \cup {39, 40}

\* switch prefix { ... default: return nil }
DecodeTag(prefix, rec, now) ==
    CASE prefix = 0 -> Case0(rec, now)   [] prefix = 1 -> Case1(rec, now)
      [] prefix = 2 -> Case2(rec, now)   [] prefix = 3 -> Case3(rec, now)
      [] prefix = 4 -> Case4(rec, now)   [] prefix = 5 -> Case5(rec, now)
      [] prefix = 6 -> Case6(rec, now)   [] prefix = 7 -> Case7(rec, now)
      [] prefix = 8 -> Case8(rec, now)   [] prefix = 9 -> Case9(rec, now)
      [] prefix = 10 -> Case10(rec, now) [] prefix = 11 -> Case11(rec, now)
      [] prefix = 12 -> Case12(rec, now) [] prefix = 13 -> Case13(rec, now)
      [] prefix = 14 -> Case14(rec, now) [] prefix = 15 -> Case15(rec, now)
      [] prefix = 16 -> Case16(rec, now) [] prefix = 17 -> Case17(rec, now)
      [] prefix = 18 -> Case18(rec, now) [] prefix = 19 -> Case19(rec, now)
      [] prefix = 20 -> Case20(rec, now) [] prefix = 21 -> Case21(rec, now)
      [] prefix = 22 -> Case22(rec, now) [] prefix = 23 -> Case23(rec, now)
      [] prefix = 24 -> Case24(rec, now) [] prefix = 25 -> Case25(rec, now)
      [] prefix = 26 -> Case26(rec, now) [] prefix = 27 -> Case27(rec, now)
      [] prefix = 28 -> Case28(rec, now) [] prefix = 29 -> Case29(rec, now)
      [] prefix = 30 -> Case30(rec, now) [] prefix = 31 -> Case31(rec, now)
      [] prefix = 32 -> Case32(rec, now) [] prefix = 33 -> Case33(rec, now)
      [] prefix = 34 -> Case34(rec, now) [] prefix = 35 -> Case35(rec, now)
      [] prefix = 36 -> Case36(rec, now) [] prefix = 37 -> Case37(rec, now)
      [] prefix = 39 -> Case39(rec, now) [] prefix = 40 -> Case40(rec, now)
      [] OTHER -> DefaultCase(rec, now)

\* BadgerItrToJSON(itr): the JSON document of the record under the cursor,
\* nil, or a panic of the goroutine
BadgerItrToJSON(rec, now) ==
    IF ~rec.vlogOk THEN NoDoc
    ELSE DecodeTag(rec.key[1], rec, now)

-----------------------------------------------------------------------------
(* The sync loop: SyncingService.Start.                                    *)

\* bulkWriteChunkSize := 1000
bulkWriteChunkSize == 1000

\* time.Sleep(60 * time.Second), in clock ticks
SleepSeconds == 60

\* string(itr.Item().Key()): a Go string holding the bytes of the key
KeyString(key) == [t |-> "string", raw |-> key]

\* An operation whose filter names the tag of the key instead of the key
NewUpdateOneModelTagOnly(key, docBSON) ==
    [filter |-> [_id |-> KeyString(<<key[1]>>)],
     update |-> [set |-> docBSON],
     upsert |-> TRUE]

\* op := mongo.NewUpdateOneModel(); op.SetFilter(bson.M{"_id": string(key)});
\* op.SetUpdate(bson.M{"$set": docBSON}); op.SetUpsert(true)
NewUpdateOneModel(key, docBSON) ==
    [filter |-> [_id |-> KeyString(key)],
     update |-> [set |-> docBSON],
     upsert |-> TRUE]

\* An update that inserts a document whether or not the filter matches one
ApplyUpdateOneInsert(coll, op) ==
    {x \in coll \cup {[_id |-> op.filter._id, fields |-> op.update.set]} : TRUE}

\* The server's UpdateOne: the document the filter matches gets the fields
\* of $set (its other fields stay); with no match and upsert, a document
\* with the filter's _id and the fields of $set is inserted
ApplyUpdateOne(coll, op) ==
    LET matches == {d \in coll : d._id = op.filter._id}
    IN IF matches # {}
       THEN LET d == CHOOSE m \in matches : TRUE
                updated == [_id |-> d._id, fields |-> op.update.set @@ d.fields]
            IN {x \in coll \cup {updated} : x # d \/ x = updated}
       ELSE IF op.upsert
            THEN LET inserted == [_id |-> op.filter._id, fields |-> op.update.set]
                 IN {x \in coll \cup {inserted} : TRUE}
            ELSE coll

RECURSIVE ApplyAll(_, _)
\* The operations of a batch applied one after the other (the first half,
\* then the second)
ApplyAll(coll, batch) ==
    IF batch = <<>> THEN coll
    ELSE IF Len(batch) = 1 THEN ApplyUpdateOne(coll, batch[1])
    ELSE LET h == Len(batch) \div 2
             first == ApplyAll(coll, SubSeq(batch, 1, h))
         IN IF first = {} THEN ApplyAll({}, SubSeq(batch, h + 1, Len(batch)))
            ELSE ApplyAll(first, SubSeq(batch, h + 1, Len(batch)))

\* What a bulk-write call can do: apply every operation, return an error
\* having applied none, or (unordered) return an error having applied some
Outcomes == {"ok", "fail", "partial"}

\* The operations an unordered bulk write applies under each outcome
Applied(batch, outcome) ==
    CASE outcome = "ok" -> batch
      [] outcome = "fail" -> <<>>
      [] outcome = "partial" ->
            [i \in 1..((Len(batch) + 1) \div 2) |-> batch[2 * i - 1]]

\* MongoCollection.BulkWrite(ctx, batch, &bulkOption)
BulkWrite(coll, batch, outcome) == ApplyAll(coll, Applied(batch, outcome))

-----------------------------------------------------------------------------
(* Stores.                                                                 *)

\* Bounds of the model
MaxPasses == 2
MaxFailures == 1
MaxSmall == 2
MaxClock == 2100
MaxWrites == 1

Rec(key, kcap, val, gob, vlogOk) ==
    [key |-> key, kcap |-> kcap, junk |-> 7, val |-> val, gob |-> gob, vlogOk |-> vlogOk]

\* Record i of a long run of utxo-operation records (tag 9), keyed in order
BulkRec(i) == Rec(<<9, i \div 256, i % 256>>, 11, <<>>, NoStruct, TRUE)

\* A store is a key-ordered sequence of records, held run-length encoded:
\* the records pre (keys below the run), a run of n utxo-operation records,
\* the records post (keys above the run)
StoreOf(pre, n, post) == [pre |-> pre, n |-> n, post |-> post]

StoreLen(st) == Len(st.pre) + st.n + Len(st.post)

\* The i-th record of the store in key order
RecordAt(st, i) ==
    IF i <= Len(st.pre) THEN st.pre[i]
    ELSE IF i <= Len(st.pre) + st.n THEN BulkRec(i - Len(st.pre))
    ELSE st.post[i - Len(st.pre) - st.n]

EmptyStore == StoreOf(<<>>, 0, <<>>)

\* n bytes seed+1, seed+2, ...
Bytes(n, seed) == [i \in 1..n |-> (seed + i) % 256]

\* structs.Map of a decoded lib.UtxoEntry
UtxoEntryMap ==
    [AmountNanos |-> GoUint(500),
     PublicKey |-> GoBytes(Bytes(33, 2)),
     BlockHeight |-> GoUint(12),
     UtxoType |-> GoUtxoType(1),
     UtxoKey |-> GoMap([TxID |-> GoBlockHash(Bytes(32, 40)), Index |-> GoUint(1)])]

\* The records small stores are made of, in key order
SmallUniverse ==
    << Rec(<<3>>, 9, Bytes(32, 100), NoStruct, TRUE),
       Rec(<<5>> \o Bytes(4, 0), 13, <<1, 2, 3>>, NoStruct, TRUE),
       Rec(<<5>> \o Bytes(4, 8), 13, <<9, 9>>, [type |-> "UtxoEntry", f |-> UtxoEntryMap], TRUE),
       Rec(<<9, 200, 1>>, 11, <<>>, NoStruct, FALSE),
       Rec(<<14>>, 9, Bytes(32, 7), NoStruct, TRUE),
       Rec(<<25, 97, 98>>, 11, Bytes(33, 60), NoStruct, TRUE),
       Rec(<<25, 97, 99>>, 11, Bytes(33, 61), NoStruct, TRUE),
       Rec(<<38, 1>>, 10, <<1>>, NoStruct, TRUE),
       Rec(<<99>>, 9, <<>>, NoStruct, TRUE),
       Rec(<<99, 1>>, 10, Bytes(8, 0), [type |-> "UtxoEntry", f |-> UtxoEntryMap], TRUE) >>

\* The i-th smallest element of a set of numbers
Nth(S, i) == CHOOSE x \in S : Cardinality({y \in S : y < x}) = i - 1

\* The records of SmallUniverse with their index in S, in key order
Pick(S) == [i \in 1..Cardinality(S) |-> SmallUniverse[Nth(S, i)]]

SmallStores ==
    {StoreOf(<<>>, 0, Pick(S)) :
        S \in {T \in SUBSET (1..Len(SmallUniverse)) : Cardinality(T) <= MaxSmall}}

\* Stores long enough for the chunk flush: a full chunk; two chunks and one
\* record; a chunk completed by a username record, with records of
\* unsupported tags under the cursor when the flush is due and after it
BulkStores ==
    {StoreOf(<<>>, bulkWriteChunkSize, <<>>),
     StoreOf(<<>>, 2 * bulkWriteChunkSize + 1, <<>>),
     StoreOf(<<>>, bulkWriteChunkSize - 1,
             <<SmallUniverse[6], SmallUniverse[8], SmallUniverse[10]>>)}

Stores == SmallStores \cup BulkStores

-----------------------------------------------------------------------------
(* The sync goroutine.                                                     *)

HarnessIdle ==
    /\ dIn = <<>> /\ dOut = <<>> /\ nIn = <<>> /\ nOnce = <<>> /\ nTwice = <<>>
    /\ dpc = "off"

\* Start has found the client connected and is about to enter its loop over
\* a store of S; Run waits for the shutdown signal
Started(S, followed) ==
    /\ pc = "view"
    /\ store \in S
    /\ snapshot = EmptyStore
    /\ cursor = 0
    /\ ops = <<>>
    /\ totalIterations = 0
    /\ collection = {}
    /\ calls = <<>>
    /\ lastErr = "none"
    /\ clock = 0
    /\ passes = 0
    /\ failures = 0
    /\ txnOpen = FALSE
    /\ forever = followed
    /\ writes = 0
    /\ mongoClient = "client"
    /\ mainpc = "waiting"
    /\ HarnessIdle

Init == Started(Stores, FALSE)

\* The process is alive: Run has not returned and nothing has panicked in
\* the main goroutine
ProcessAlive == mainpc \notin {"exited", "crashed"}

\* A run followed for ever keeps no count of passes and reads one time off
\* the clock; any other run is followed up to MaxPasses and MaxClock
PassInBounds == forever \/ (passes < MaxPasses /\ clock < MaxClock)

StepInBounds == forever \/ clock < MaxClock

Tick(d) == IF forever THEN clock ELSE clock + d

PassDone == IF forever THEN passes ELSE passes + 1

\* The outcomes the environment may still choose for a bulk-write call
Allowed == IF failures < MaxFailures THEN Outcomes ELSE {"ok"}

\* syncSrv.DB.View(func(txn) { itr := txn.NewIterator(..); totalIterations
\* := 0; var ops; itr.Seek(nil)
OpenSnapshot ==
    /\ pc = "view"
    /\ ProcessAlive
    /\ PassInBounds
    /\ pc' = "loop"
    /\ snapshot' = store
    /\ txnOpen' = TRUE
    /\ cursor' = 1
    /\ ops' = <<>>
    /\ totalIterations' = 0
    /\ calls' = <<>>
    /\ UNCHANGED <<store, collection, lastErr, clock, passes, failures>>
    /\ UNCHANGED nodeVars
    /\ UNCHANGED harnessVars

\* A chunk test that forgets totalIterations != 0
ChunkFullAtZero(n) == (n % bulkWriteChunkSize) = 0

\* (totalIterations%bulkWriteChunkSize) == 0 && totalIterations != 0
ChunkFull(n) == (n % bulkWriteChunkSize) = 0 /\ n # 0

\* A loop body that goes on to the next record once it has flushed a chunk
AfterDispatchSkipAtFlush(ops1, n1, rec, docJSON) ==
    IF docJSON.kind = "panic"
    THEN /\ pc' = "crashed"
         /\ ops' = ops1
         /\ totalIterations' = n1
         /\ cursor' = cursor
    ELSE IF docJSON.kind = "nil" \/ ChunkFull(totalIterations)
    THEN /\ pc' = pc
         /\ ops' = ops1
         /\ totalIterations' = n1
         /\ cursor' = cursor + 1
    ELSE /\ pc' = pc
         /\ ops' = Append(ops1, NewUpdateOneModel(rec.key, Unmarshal(docJSON.doc).v))
         /\ totalIterations' = n1 + 1
         /\ cursor' = cursor + 1

\* The rest of the loop body once the chunk flush is done (ops1 and n1 are
\* the batch and the counter after it) and the dispatcher has returned
AfterDispatch(ops1, n1, rec, docJSON) ==
    IF docJSON.kind = "panic"
    THEN /\ pc' = "crashed"
         /\ ops' = ops1
         /\ totalIterations' = n1
         /\ cursor' = cursor
    ELSE IF docJSON.kind = "nil"
    THEN /\ pc' = pc
         /\ ops' = ops1
         /\ totalIterations' = n1
         /\ cursor' = cursor + 1
    ELSE /\ pc' = pc
         /\ ops' = Append(ops1, NewUpdateOneModel(rec.key, Unmarshal(docJSON.doc).v))
         /\ totalIterations' = n1 + 1
         /\ cursor' = cursor + 1

\* The bulk-write call of the loop (when due) and what the loop records of it
Flush(due, batch, outcome) ==
    /\ collection' = IF due THEN BulkWrite(collection, batch, outcome) ELSE collection
    /\ calls' = IF due THEN Append(calls, Len(batch)) ELSE calls
    /\ lastErr' = IF due THEN outcome ELSE lastErr
    /\ failures' = IF due /\ outcome # "ok" THEN failures + 1 ELSE failures

\* A flush that forgets ops = nil
ResetBatchKeep(due, batch) == batch

\* ops = nil, once the bulk write has returned
ResetBatch(due, batch) == IF due THEN <<>> ELSE batch

\* A flush that forgets totalIterations = 0
ResetCounterKeep(due, n) == n

\* totalIterations = 0 // Reset total iterations to prevent overflow
ResetCounter(due, n) == IF due THEN 0 ELSE n

\* An iterator that reads the record at the cursor's position in the live
\* store, where there is one
ItemLive ==
    IF cursor <= StoreLen(store) THEN RecordAt(store, cursor)
    ELSE RecordAt(snapshot, cursor)

\* itr.Item(): the record under the cursor, read in the snapshot of the
\* transaction the iterator belongs to
Item == RecordAt(snapshot, cursor)

\* One iteration of the for loop over the cursor: the chunk flush when due,
\* the dispatch of the record under the cursor, the append, itr.Next()
Iterate ==
    /\ pc = "loop"
    /\ cursor <= StoreLen(snapshot)
    /\ ProcessAlive
    /\ StepInBounds
    /\ \E outcome \in (IF ChunkFull(totalIterations) THEN Allowed ELSE {"ok"}) :
        /\ Flush(ChunkFull(totalIterations), ops, outcome)
        /\ AfterDispatch(ResetBatch(ChunkFull(totalIterations), ops),
                         ResetCounter(ChunkFull(totalIterations), totalIterations),
                         Item,
                         BadgerItrToJSON(Item, clock))
    /\ clock' = Tick(1)
    /\ UNCHANGED <<store, snapshot, passes, txnOpen>>
    /\ UNCHANGED nodeVars
    /\ UNCHANGED harnessVars

\* After the loop: if totalIterations != 0 { BulkWrite(ops[0:totalIterations]) }
FinalFlush ==
    /\ pc = "loop"
    /\ cursor > StoreLen(snapshot)
    /\ ProcessAlive
    /\ \E outcome \in (IF totalIterations # 0 THEN Allowed ELSE {"ok"}) :
        Flush(totalIterations # 0, SubSeq(ops, 1, totalIterations), outcome)
    /\ pc' = "sleep"
    /\ clock' = Tick(1)
    /\ UNCHANGED <<store, snapshot, cursor, ops, totalIterations, passes, txnOpen>>
    /\ UNCHANGED nodeVars
    /\ UNCHANGED harnessVars

\* A sleep after which Start returns: a loop without its outer for
SleepOnce ==
    /\ pc = "sleep"
    /\ ProcessAlive
    /\ pc' = "returned"
    /\ clock' = Tick(SleepSeconds)
    /\ passes' = PassDone
    /\ snapshot' = EmptyStore
    /\ txnOpen' = FALSE
    /\ cursor' = 0
    /\ UNCHANGED <<store, ops, totalIterations, collection, calls, lastErr, failures>>
    /\ UNCHANGED nodeVars
    /\ UNCHANGED harnessVars

\* time.Sleep(60 * time.Second); return nil; the deferred itr.Close() and the
\* end of View release the snapshot; the outer for starts over
Sleep ==
    /\ pc = "sleep"
    /\ ProcessAlive
    /\ pc' = "view"
    /\ clock' = Tick(SleepSeconds)
    /\ passes' = PassDone
    /\ snapshot' = EmptyStore
    /\ txnOpen' = FALSE
    /\ cursor' = 0
    /\ UNCHANGED <<store, ops, totalIterations, collection, calls, lastErr, failures>>
    /\ UNCHANGED nodeVars
    /\ UNCHANGED harnessVars

Next == OpenSnapshot \/ Iterate \/ FinalFlush \/ Sleep

Spec == Init /\ [][Next]_vars

-----------------------------------------------------------------------------
(* The sync goroutine next to the node, which commits writes to the store  *)
(* the goroutine reads.                                                     *)

RECURSIVE KeyLess(_, _)
\* bytes.Compare(a, b) < 0: the key order of the store
KeyLess(a, b) ==
    IF a = <<>> THEN b # <<>>
    ELSE IF b = <<>> THEN FALSE
    ELSE IF a[1] # b[1] THEN a[1] < b[1]
    ELSE KeyLess(Tail(a), Tail(b))

\* txn.Set(rec.key, rec.val), committed: rec takes its place in key order,
\* instead of the record of the same key if there is one
Put(st, rec) ==
    StoreOf(<<>>, 0,
            SelectSeq(st.post, LAMBDA r : KeyLess(r.key, rec.key))
            \o <<rec>>
            \o SelectSeq(st.post, LAMBDA r : KeyLess(rec.key, r.key)))

\* txn.Delete(key), committed
DeleteKey(st, key) == StoreOf(<<>>, 0, SelectSeq(st.post, LAMBDA r : r.key # key))

\* The records the node writes: the best block hash (and a new one over it),
\* a username mapping
WriteUniverse ==
    {SmallUniverse[1], Rec(<<3>>, 9, Bytes(32, 101), NoStruct, TRUE), SmallUniverse[6]}

\* The stores of at most one record
WriterStores == {st \in SmallStores : StoreLen(st) <= 1}

WriterInit == Started(WriterStores, FALSE)

\* The node commits one write: a record set or a key deleted
Write ==
    /\ ProcessAlive
    /\ writes < MaxWrites
    /\ store.n = 0
    /\ \E st \in {Put(store, r) : r \in WriteUniverse}
                 \cup {DeleteKey(store, store.post[i].key) : i \in DOMAIN store.post} :
          store' = st
    /\ writes' = writes + 1
    /\ UNCHANGED <<pc, snapshot, cursor, ops, totalIterations, collection, calls,
                   lastErr, clock, passes, failures, txnOpen>>
    /\ UNCHANGED <<forever, mongoClient, mainpc>>
    /\ UNCHANGED harnessVars

WriterNext == Next \/ Write

WriterSpec == WriterInit /\ [][WriterNext]_vars

-----------------------------------------------------------------------------
(* Run: Node.Start has spawned the goroutine that connects and then syncs, *)
(* and the main goroutine waits for the shutdown signal, then stops the     *)
(* node. Nothing orders the goroutine's write of mongoClient and the main   *)
(* goroutine's read of it.                                                  *)

NodeInit ==
    /\ pc = "spawned"
    /\ store \in WriterStores
    /\ snapshot = EmptyStore
    /\ cursor = 0
    /\ ops = <<>>
    /\ totalIterations = 0
    /\ collection = {}
    /\ calls = <<>>
    /\ lastErr = "none"
    /\ clock = 0
    /\ passes = 0
    /\ failures = 0
    /\ txnOpen = FALSE
    /\ forever = FALSE
    /\ writes = 0
    /\ mongoClient = "nil"
    /\ mainpc = "waiting"
    /\ HarnessIdle

\* ConnectToMongo: mongo.Connect and Ping, log.Fatalf (the process exits)
\* if either fails, syncSrv.mongoClient = client otherwise
ConnectToMongo ==
    /\ pc = "spawned"
    /\ ProcessAlive
    /\ \E connected \in BOOLEAN :
          IF connected
          THEN mongoClient' = "client" /\ pc' = "start" /\ mainpc' = mainpc
          ELSE mongoClient' = mongoClient /\ pc' = pc /\ mainpc' = "exited"
    /\ UNCHANGED <<store, snapshot, cursor, ops, totalIterations, collection, calls,
                   lastErr, clock, passes, failures, txnOpen, forever, writes>>
    /\ UNCHANGED harnessVars

\* Start up to its loop: return if syncSrv.mongoClient == nil, else take the
\* collection
Start ==
    /\ pc = "start"
    /\ ProcessAlive
    /\ pc' = IF mongoClient = "nil" THEN "returned" ELSE "view"
    /\ UNCHANGED <<store, snapshot, cursor, ops, totalIterations, collection, calls,
                   lastErr, clock, passes, failures, txnOpen>>
    /\ UNCHANGED nodeVars
    /\ UNCHANGED harnessVars

\* <-shutdownListener returns; the deferred function runs coreNode.Stop()
Signal ==
    /\ mainpc = "waiting"
    /\ mainpc' = "stopping"
    /\ UNCHANGED syncVars
    /\ UNCHANGED <<forever, writes, mongoClient>>
    /\ UNCHANGED harnessVars

\* mongoNode.Stop(): DisconnectFromMongo calls Disconnect on the client it
\* reads from syncSrv.mongoClient, nil until the goroutine has written it
\* and, the read being unordered with that write, possibly nil after; a nil
\* client is dereferenced (panic); otherwise Run returns
Stop ==
    /\ mainpc = "stopping"
    /\ \E seen \in {"nil", mongoClient} :
          mainpc' = IF seen = "nil" THEN "crashed" ELSE "exited"
    /\ UNCHANGED syncVars
    /\ UNCHANGED <<forever, writes, mongoClient>>
    /\ UNCHANGED harnessVars

NodeNext == ConnectToMongo \/ Start \/ Signal \/ Stop \/ Next

NodeSpec == NodeInit /\ [][NodeNext]_vars

-----------------------------------------------------------------------------
(* The sync goroutine followed for ever. It is the only goroutine that     *)
(* takes steps here, and the Go scheduler does not leave a runnable         *)
(* goroutine waiting for ever: weak fairness of its steps.                  *)

\* The short stores, and a store whose chunk flush is due with a record
\* under the cursor that the dispatcher cannot slice
LiveStores ==
    SmallStores \cup {StoreOf(<<>>, bulkWriteChunkSize, <<SmallUniverse[5]>>)}

LiveInit == Started(LiveStores, TRUE)

\* What an iteration of the loop does to the cursor unless the dispatcher
\* panics: itr.Next()
Advance ==
    /\ pc = "loop"
    /\ cursor <= StoreLen(snapshot)
    /\ ProcessAlive
    /\ cursor' = cursor + 1

\* Each step of the goroutine is taken once it stays possible; for the
\* iteration this is stated on the cursor, which it moves or else panics
Fairness ==
    /\ WF_vars(OpenSnapshot)
    /\ WF_cursor(Advance)
    /\ WF_vars(FinalFlush)
    /\ WF_vars(Sleep)

LiveSpec == LiveInit /\ [][Next]_vars /\ Fairness

-----------------------------------------------------------------------------
(* The dispatcher and the normalizer on their own: one record decoded, one *)
(* field map normalized and normalized again.                              *)

\* Bounds of the inputs
MaxKeyLen == 75
MidKeyLen == 30
SpareCap == 8

\* The body of a key: zero where the cases read the high bytes of a number
\* (key[1:9], key[34:42], key[66:70]), position-dependent elsewhere
KeyBody(n) ==
    [i \in 1..n |-> IF i \in (1..7) \cup (34..40) \cup (66..68) THEN 0
                    ELSE 97 + (i % 16)]

Hash32 == Bytes(32, 40)
Pub33 == Bytes(33, 2)

HeaderMap ==
    [Version |-> GoUint(0),
     PrevBlockHash |-> GoPBlockHash(Hash32),
     TransactionMerkleRoot |-> GoPBlockHash(Bytes(32, 90)),
     TstampSecs |-> GoUint(1610000000),
     Height |-> GoUint(3),
     Nonce |-> GoUint(77)]

\* structs.Map of the struct each case deserializes the value into
StructMaps ==
    [MsgBitCloutBlock |->
        [Header |-> GoMap(HeaderMap), Txns |-> GoList(<<>>)],
     BlockNode |->
        [Parent |-> GoPBlockNode(Hash32), Hash |-> GoPBlockHash(Bytes(32, 41)),
         Height |-> GoUint(3), DifficultyTarget |-> GoPBlockHash(Bytes(32, 1)),
         CumWork |-> GoPBigInt(<<5>>), Header |-> GoMap(HeaderMap), Status |-> GoUint(1)],
     UtxoEntry |-> UtxoEntryMap,
     UtxoKey |-> [TxID |-> GoBlockHash(Hash32), Index |-> GoUint(1)],
     MessageEntry |->
        [SenderPublicKey |-> GoBytes(Pub33), RecipientPublicKey |-> GoBytes(Bytes(33, 3)),
         EncryptedText |-> GoBytes(<<97, 98, 99>>), TstampNanos |-> GoUint(9)],
     TransactionMetadata |->
        [BlockHashHex |-> GoString("00ff"), TxnIndexInBlock |-> GoUint(2),
         TxnType |-> GoString("BASIC_TRANSFER")],
     PostEntry |->
        [PostHash |-> GoPBlockHash(Hash32), PosterPublicKey |-> GoBytes(Pub33),
         ParentStakeID |-> GoBytes(<<>>), Body |-> GoBytes(<<104, 105>>),
         CreatorBasisPoints |-> GoUint(1000), IsHidden |-> GoBool(FALSE)],
     ProfileEntry |->
        [PublicKey |-> GoBytes(Pub33), Username |-> GoBytes(<<97, 98>>),
         Description |-> GoBytes(<<100>>), ProfilePic |-> GoBytes(<<>>),
         IsHidden |-> GoBool(FALSE),
         CoinEntry |-> GoMap([CreatorBasisPoints |-> GoUint(1000),
                              NumberOfHolders |-> GoUint(1)])],
     BalanceEntry |->
        [HODLerPKID |-> GoPPKID(Pub33), CreatorPKID |-> GoPPKID(Bytes(33, 3)),
         BalanceNanos |-> GoUint(10), HasPurchased |-> GoBool(TRUE)],
     PKIDEntry |-> [PKID |-> GoPPKID(Pub33), PublicKey |-> GoBytes(Pub33)],
     RecloutEntry |->
        [ReclouterPubKey |-> GoBytes(Pub33), RecloutPostHash |-> GoPBlockHash(Hash32),
         RecloutedPostHash |-> GoPBlockHash(Bytes(32, 41))],
     GlobalParamsEntry |->
        [USDCentsPerBitcoin |-> GoUint(5000000), CreateProfileFeeNanos |-> GoUint(100),
         MinimumNetworkFeeNanosPerKB |-> GoUint(1000)]]

\* The struct type the case of a tag deserializes the value into
StructTypeOf(t) ==
    CASE t = 0 -> "MsgBitCloutBlock"
      [] t \in {1, 2} -> "BlockNode"
      [] t = 5 -> "UtxoEntry"
      [] t = 6 -> "UtxoKey"
      [] t = 12 -> "MessageEntry"
      [] t = 15 -> "TransactionMetadata"
      [] t = 17 -> "PostEntry"
      [] t = 23 -> "ProfileEntry"
      [] t \in {33, 34} -> "BalanceEntry"
      [] t = 36 -> "PKIDEntry"
      [] t = 39 -> "RecloutEntry"
      [] t = 40 -> "GlobalParamsEntry"
      [] OTHER -> "none"

GobOf(t) ==
    IF StructTypeOf(t) = "none" THEN NoStruct
    ELSE [type |-> StructTypeOf(t), f |-> StructMaps[StructTypeOf(t)]]

\* The tags of the inputs: the supported ones and some unsupported ones
InputTags == (0..41) \cup {99}

InputKeyLens == {1, MidKeyLen, MaxKeyLen}

\* Values: empty, shorter than a number, a number, longer than a hash
InputVals ==
    {<<>>, <<0, 0, 3>>, <<0, 0, 0, 0, 0, 0, 1, 44>>,
     <<0, 0, 0, 0, 0, 0, 1, 44>> \o Bytes(32, 50)}

\* Records of every tag: keys of one byte, of medium and of full length in a
\* slice with and without spare capacity, values of each kind, that
\* deserialize into the struct of the tag or do not; and the two records of
\* a like, the index (tag 30: public key, post hash) and its inverse (tag
\* 31: post hash, public key)
DecodeInputs ==
    {Rec(<<t>> \o KeyBody(n - 1), n + c, v, g, TRUE) :
        t \in InputTags, n \in InputKeyLens, c \in {0, SpareCap}, v \in InputVals,
        g \in {NoStruct}}
    \cup
    {Rec(<<t>> \o KeyBody(n - 1), n + SpareCap, <<9, 9>>, GobOf(t), ok) :
        t \in InputTags, n \in InputKeyLens, ok \in BOOLEAN}
    \cup
    {Rec(IF t = 30 THEN <<30>> \o like[1] \o like[2] ELSE <<31>> \o like[2] \o like[1],
         66 + c, <<>>, NoStruct, TRUE) :
        t \in {30, 31}, c \in {0, SpareCap},
        like \in {<<Pub33, Hash32>>, <<Bytes(33, 3), Bytes(32, 41)>>}}

\* Field maps as the dispatcher hands them to the normalizer: the maps of
\* the structs, maps without any field the key switch names, and maps of
\* structs decoded with a nil pointer in a field
NormalizeInputs ==
    {StructMaps[n] : n \in DOMAIN StructMaps \ {"PKIDEntry"}}
    \cup {[PKID |-> GoBytes(Pub33), PublicKey |-> GoBytes(Pub33)],
          [Username |-> GoBytes(<<97, 98>>), PKID |-> GoBytes(Pub33)],
          [TxID |-> GoBlockHash(Hash32)],
          [Nanos |-> GoUint(12)],
          [Parent |-> GoPBlockNode(NilPtr), CumWork |-> GoPBigInt(NilPtr),
           Hash |-> GoPBlockHash(NilPtr), Extra |-> GoNil],
          [Index |-> GoUint(1), UtxoKey |-> GoMap([Index |-> GoUint(2)])],
          [StructMaps["BalanceEntry"] EXCEPT !.HODLerPKID = GoPPKID(NilPtr)],
          [StructMaps["BalanceEntry"] EXCEPT !.CreatorPKID = GoPPKID(NilPtr)],
          [Header |-> GoMap([HeaderMap EXCEPT !.PrevBlockHash = GoPBlockHash(NilPtr)]),
           Txns |-> GoList(<<>>)],
          <<>>}

SyncIdle ==
    /\ pc = "off"
    /\ store = EmptyStore
    /\ snapshot = EmptyStore
    /\ cursor = 0
    /\ ops = <<>>
    /\ totalIterations = 0
    /\ collection = {}
    /\ calls = <<>>
    /\ lastErr = "none"
    /\ passes = 0
    /\ failures = 0
    /\ txnOpen = FALSE
    /\ forever = FALSE
    /\ writes = 0
    /\ mongoClient = "nil"
    /\ mainpc = "off"

PureInit ==
    /\ SyncIdle
    /\ clock = 0
    /\ dOut = <<>> /\ nOnce = <<>> /\ nTwice = <<>>
    /\ \/ dpc = "decode" /\ dIn \in DecodeInputs /\ nIn = <<>>
       \/ dpc = "simplify" /\ nIn \in NormalizeInputs /\ dIn = <<>>

\* docJSON := BadgerItrToJSON(itr)
Decode ==
    /\ dpc = "decode"
    /\ dOut' = BadgerItrToJSON(dIn, clock)
    /\ dpc' = "decoded"
    /\ clock' = clock + 1
    /\ UNCHANGED <<dIn, nIn, nOnce, nTwice>>
    /\ UNCHANGED <<pc, store, snapshot, cursor, ops, totalIterations, collection,
                   calls, lastErr, passes, failures, txnOpen>>
    /\ UNCHANGED nodeVars

\* SimplifyMap(&docMap)
SimplifyOnce ==
    /\ dpc = "simplify"
    /\ nOnce' = SimplifyMap(nIn, clock)
    /\ dpc' = "simplified"
    /\ clock' = clock + 1
    /\ UNCHANGED <<dIn, dOut, nIn, nTwice>>
    /\ UNCHANGED <<pc, store, snapshot, cursor, ops, totalIterations, collection,
                   calls, lastErr, passes, failures, txnOpen>>
    /\ UNCHANGED nodeVars

\* SimplifyMap(&docMap) on the map a first call returned from
SimplifyTwice ==
    /\ dpc = "simplified"
    /\ nOnce.ok
    /\ nTwice' = SimplifyMap(nOnce.m, clock)
    /\ dpc' = "resimplified"
    /\ clock' = clock + 1
    /\ UNCHANGED <<dIn, dOut, nIn, nOnce>>
    /\ UNCHANGED <<pc, store, snapshot, cursor, ops, totalIterations, collection,
                   calls, lastErr, passes, failures, txnOpen>>
    /\ UNCHANGED nodeVars

PureNext == Decode \/ SimplifyOnce \/ SimplifyTwice

PureSpec == PureInit /\ [][PureNext]_vars

-----------------------------------------------------------------------------
(* Properties of the sync goroutine.                                       *)

\* Every record of the store decodes to a document
AllYield(st) ==
    \A i \in 1..StoreLen(st) : BadgerItrToJSON(RecordAt(st, i), 0).kind = "doc"

\* C1: a pass over N records that all yield a document has issued, when it
\* goes to sleep, ceil(N/1000) bulk-write calls, none of more than 1000
\* operations, all but the last of exactly 1000, the last of the remainder
C1_BatchCount ==
    (pc = "sleep" /\ AllYield(snapshot)) =>
        /\ Len(calls) = (StoreLen(snapshot) + 999) \div 1000
        /\ \A i \in 1..Len(calls) : calls[i] <= 1000
        /\ \A i \in 1..(Len(calls) - 1) : calls[i] = 1000
        /\ Len(calls) > 0 =>
              calls[Len(calls)] = StoreLen(snapshot) - 1000 * (Len(calls) - 1)

\* A pass over 2001 documents has ended with calls of 1000, 1000 and 1
\* operations
C1_Witness ==
    /\ pc = "sleep"
    /\ StoreLen(snapshot) = 2001
    /\ AllYield(snapshot)
    /\ calls = <<1000, 1000, 1>>

\* C2: the operation appended for a record that yields a document has the
\* filter _id = the record's key bytes as a string, the update $set = the
\* decoded fields of that same record, and upsert set
C2_OperationShape ==
    [][(/\ pc = "loop"
        /\ cursor' = cursor + 1
        /\ BadgerItrToJSON(RecordAt(snapshot, cursor), clock).kind = "doc")
       => /\ Len(ops') \in {1, Len(ops) + 1}
          /\ ops'[Len(ops')].filter =
                [_id |-> [t |-> "string", raw |-> RecordAt(snapshot, cursor).key]]
          /\ ops'[Len(ops')].update =
                [set |-> Unmarshal(BadgerItrToJSON(RecordAt(snapshot, cursor), clock).doc).v]
          /\ ops'[Len(ops')].upsert = TRUE]_vars

\* The first record, with a key of several bytes, has got its operation
C2_Witness ==
    /\ pc = "loop"
    /\ cursor = 2
    /\ Len(ops) = 1
    /\ Len(RecordAt(snapshot, 1).key) > 1
    /\ ops[1].filter._id.raw = RecordAt(snapshot, 1).key
    /\ "Username" \in DOMAIN ops[1].update.set
    /\ ops[1].upsert

\* C3: for a record whose tag is not in {0..37, 39, 40} the dispatcher
\* returns no document whatever the value, and the iteration appends no
\* operation and does not advance the pending-batch counter for it
C3_UnsupportedTagDropped ==
    [][(/\ pc = "loop"
        /\ cursor <= StoreLen(snapshot)
        /\ RecordAt(snapshot, cursor).key[1] \notin ((0..37) \cup {39, 40})
        /\ cursor' # cursor)
       => /\ BadgerItrToJSON(RecordAt(snapshot, cursor), clock).kind = "nil"
          /\ cursor' = cursor + 1
          /\ \/ ops' = ops /\ totalIterations' = totalIterations
             \/ totalIterations = 1000 /\ ops' = <<>> /\ totalIterations' = 0]_vars

\* A record of tag 99 whose value deserializes has been passed over, the
\* operation of the record before it still the only one pending
C3_Witness ==
    /\ pc = "loop"
    /\ cursor = 3
    /\ RecordAt(snapshot, 2).key[1] = 99
    /\ RecordAt(snapshot, 2).gob.type = "UtxoEntry"
    /\ Len(ops) = 1
    /\ totalIterations = 1

\* C5: whatever passes have run and whichever bulk writes failed, every
\* bulk write leaves the destination collection (empty at the start) with
\* no two documents of the same _id, every _id the key of a source record
C5_OneDocumentPerKey ==
    [][collection' # collection =>
          /\ Cardinality({d._id : d \in collection'}) = Cardinality(collection')
          /\ {d._id.raw : d \in collection'} \subseteq
                {RecordAt(store, i).key : i \in 1..StoreLen(store)}
          /\ Cardinality(collection') <= StoreLen(store)]_vars

\* A second pass has rewritten both documents of a two-record store
C5_Witness ==
    /\ pc = "sleep"
    /\ passes = 1
    /\ failures = 0
    /\ StoreLen(store) = 2
    /\ Cardinality(collection) = 2
    /\ \A d \in collection :
          d.fields["Time"].v \notin {TimeString(t) : t \in 0..SleepSeconds}

RECURSIVE StripTime(_)
\* A decoded document without its Time fields, those of sub-maps included
StripTime(x) ==
    IF x.t = "map"
    THEN GoMap([k \in DOMAIN x.v \ {"Time"} |-> StripTime(x.v[k])])
    ELSE IF x.t = "list"
    THEN GoList([i \in 1..Len(x.v) |-> StripTime(x.v[i])])
    ELSE x

\* C6 as stated: in a pass after the first over the unchanged store, the
\* operation last appended carries the _id and exactly the field content of
\* the document the pass before wrote
C6_SameContent ==
    (pc = "loop" /\ passes >= 1 /\ failures = 0) =>
        \A i \in {Len(ops)} \ {0} : \E d \in collection :
            /\ d._id = ops[i].filter._id
            /\ d.fields = ops[i].update.set

\* C6: in a pass after the first over the unchanged store, the operation
\* last appended carries the _id of a document the pass before wrote and the
\* same field content except for the Time fields; a pass that ends without a
\* chunk flush has produced an operation for every _id of the collection
C6_SameContentButTime ==
    /\ (pc = "loop" /\ passes >= 1 /\ failures = 0) =>
          \A i \in {Len(ops)} \ {0} : \E d \in collection :
              /\ d._id = ops[i].filter._id
              /\ StripTime(GoMap(d.fields)) = StripTime(GoMap(ops[i].update.set))
    /\ (/\ pc = "sleep" /\ passes >= 1 /\ failures = 0
        /\ Len(calls) = (IF totalIterations # 0 THEN 1 ELSE 0)) =>
          {d._id : d \in collection} = {ops[i].filter._id : i \in 1..Len(ops)}

\* A second pass has produced the operation for a record with a sub-map,
\* whose document of the first pass is in the collection
C6_Witness ==
    /\ pc = "loop"
    /\ passes = 1
    /\ failures = 0
    /\ Len(ops) >= 1
    /\ "UtxoKey" \in DOMAIN ops[1].update.set
    /\ \E d \in collection : d._id = ops[1].filter._id

\* C10: a failed bulk-write call is not retried and does not end the pass.
\* After a failed chunk flush the iteration goes on with the record under the
\* cursor, the pending batch holding nothing but that record's operation;
\* after a failed final flush the pass goes to sleep; the next pass starts
\* with an empty batch
C10_FailedFlushDropped ==
    [][/\ (/\ pc = "loop"
           /\ cursor <= StoreLen(snapshot)
           /\ Len(calls') = Len(calls) + 1
           /\ lastErr' # "ok")
          => /\ calls' = Append(calls, Len(ops))
             /\ cursor' = IF pc' = "crashed" THEN cursor ELSE cursor + 1
             /\ pc' = IF BadgerItrToJSON(RecordAt(snapshot, cursor), clock).kind = "panic"
                      THEN "crashed" ELSE "loop"
             /\ totalIterations' = Len(ops')
             /\ Len(ops') <= 1
             /\ BadgerItrToJSON(RecordAt(snapshot, cursor), clock).kind = "doc"
                   => /\ Len(ops') = 1
                      /\ ops'[1].filter._id.raw = RecordAt(snapshot, cursor).key
       /\ (/\ pc = "loop"
           /\ cursor > StoreLen(snapshot)
           /\ Len(calls') = Len(calls) + 1
           /\ lastErr' # "ok")
          => /\ calls' = Append(calls, totalIterations)
             /\ pc' = "sleep"
       /\ (pc = "view" /\ pc' = "loop")
          => /\ ops' = <<>>
             /\ totalIterations' = 0
             /\ calls' = <<>>]_vars

\* A chunk flush of 1000 operations has failed with nothing written, and the
\* record that was under the cursor has its operation pending
C10_Witness ==
    /\ pc = "loop"
    /\ lastErr = "fail"
    /\ calls = <<1000>>
    /\ collection = {}
    /\ cursor = 1002
    /\ Len(ops) = 1
    /\ ops[1].filter._id.raw = RecordAt(snapshot, 1001).key

\* The _id of every document a pass over st sends: the keys of the records
\* that yield a document
YieldingKeys(st) ==
    {KeyString(RecordAt(st, i).key) :
        i \in {j \in 1..StoreLen(st) :
                  BadgerItrToJSON(RecordAt(st, j), 0).kind = "doc"}}

Ids(coll) == {d._id : d \in coll}

\* C11: with the store unchanged and every bulk write succeeding from some
\* point on (the failures of a run are at most MaxFailures), a bulk-write
\* failure is followed, as long as the goroutine is there to be scheduled
\* (it is gone once the dispatcher has panicked), by a state in which every
\* record that yields a document has its document in the destination (at
\* the end of a pass, when the goroutine goes to sleep)
C11_SelfHealing ==
    (lastErr \in {"fail", "partial"}) ~>
        \/ pc = "crashed"
        \/ pc = "sleep" /\ YieldingKeys(store) \subseteq Ids(collection)

\* A bulk write has failed, and a later pass has written every document
C11_Witness ==
    /\ forever
    /\ failures > 0
    /\ lastErr = "ok"
    /\ pc = "sleep"
    /\ collection # {}
    /\ YieldingKeys(store) \subseteq Ids(collection)

\* C12: once started with a connected client the goroutine alternates
\* between scanning and sleeping for ever and reaches no terminal state:
\* every scan is followed by a sleep and every sleep by a new scan
C12_ScanAndSleepForever ==
    /\ (pc = "loop") ~> (pc = "sleep")
    /\ (pc = "sleep") ~> (pc = "loop")

\* C13: a store read failure in the middle of a pass (the value under the
\* cursor cannot be materialized) aborts the pass: the iteration that meets
\* it is the last of the pass, and the goroutine is back at the head of the
\* outer loop to start a new one
C13_ReadFailureAbortsPass ==
    [][(/\ pc = "loop"
        /\ cursor <= StoreLen(snapshot)
        /\ ~RecordAt(snapshot, cursor).vlogOk)
       => pc' = "view"]_vars

\* C14: every record a pass dispatches is read from the one snapshot opened
\* when the pass started, whatever the node writes meanwhile: the snapshot
\* is the store as it was at that moment, it stays the same until the pass
\* has finished, the operation an iteration appends is built from the
\* snapshot's record under the cursor, and the next pass opens its snapshot
\* on the store as written
C14_SnapshotIsolation ==
    [][/\ (pc = "view" /\ pc' = "loop") => snapshot' = store
       /\ (pc = "loop" /\ pc' # "view") => snapshot' = snapshot
       /\ (pc = "loop" /\ cursor' = cursor + 1 /\ Len(ops') > 0
              /\ ops' # ops) =>
            /\ BadgerItrToJSON(RecordAt(snapshot, cursor), clock).kind = "doc"
            /\ ops'[Len(ops')] =
                NewUpdateOneModel(
                    RecordAt(snapshot, cursor).key,
                    Unmarshal(BadgerItrToJSON(RecordAt(snapshot, cursor), clock).doc).v)
      ]_vars

\* The node has deleted a record during a pass whose pending batch holds
\* the operation built from it
C14_Witness ==
    /\ pc = "loop"
    /\ writes > 0
    /\ store # snapshot
    /\ cursor = 2
    /\ Len(ops) = 1
    /\ ops[1].filter._id = KeyString(RecordAt(snapshot, 1).key)
    /\ \A i \in 1..StoreLen(store) : RecordAt(store, i).key # RecordAt(snapshot, 1).key

\* The _id of the operations of a batch
OpIds(batch) == {batch[i].filter._id : i \in 1..Len(batch)}

\* C16: in a pass over any mix of records that yield a document and records
\* that are dropped, each yielding record gives one operation to one
\* bulk-write call, in key order. Step by step: a pass starts with no
\* operation pending and no call made; an iteration first sends, if a
\* flush is due, all the pending operations in one call (which writes them
\* all when it succeeds) and keeps none, then appends the operation of the
\* record under the cursor if it yields a document and nothing otherwise,
\* and moves the cursor by one; the end of the pass sends what is pending
C16_EachRecordOnceInOrder ==
    [][/\ (pc = "view" /\ pc' = "loop") =>
            (cursor' = 1 /\ ops' = <<>> /\ calls' = <<>>)
       /\ (pc = "loop" /\ pc' = "loop" /\ cursor' # cursor) =>
            /\ cursor' = cursor + 1
            /\ calls' # calls =>
                  /\ calls' = Append(calls, Len(ops))
                  /\ lastErr' = "ok" => OpIds(ops) \subseteq Ids(collection')
            /\ IF BadgerItrToJSON(RecordAt(snapshot, cursor), clock).kind = "doc"
               THEN /\ Len(ops') > 0
                    /\ ops' = Append(IF calls' # calls THEN <<>> ELSE ops, ops'[Len(ops')])
                    /\ ops'[Len(ops')].filter._id =
                           KeyString(RecordAt(snapshot, cursor).key)
               ELSE ops' = (IF calls' # calls THEN <<>> ELSE ops)
       /\ (pc = "loop" /\ pc' = "sleep") =>
            /\ cursor > StoreLen(snapshot)
            /\ IF ops # <<>>
               THEN /\ calls' = Append(calls, Len(ops))
                    /\ lastErr' = "ok" => OpIds(ops) \subseteq Ids(collection')
               ELSE calls' = calls /\ collection' = collection
      ]_vars

\* A pass over 999 records that yield a document, a username record that
\* yields one, and two records of unsupported tags, the first of them under
\* the cursor when the chunk is flushed, has made one call that wrote 1000
\* documents
C16_Witness ==
    /\ pc = "sleep"
    /\ StoreLen(snapshot) = 1002
    /\ calls = <<1000>>
    /\ lastErr = "ok"
    /\ passes = 0
    /\ Cardinality(collection) = 1000

\* C17: in every state totalIterations is the number of operations in ops
\* and lies in 0..1000 (so ops[0:totalIterations] is in range), and every
\* bulk-write call made carried between 1 and 1000 operations
C17_CounterIsBatchLength ==
    /\ totalIterations = Len(ops)
    /\ totalIterations \in 0..bulkWriteChunkSize
    /\ \A i \in 1..Len(calls) : calls[i] \in 1..bulkWriteChunkSize

\* The second chunk has been flushed and the record that was under the
\* cursor is the one operation pending
C17_Witness ==
    /\ pc = "loop"
    /\ Len(calls) = 2
    /\ totalIterations = 1
    /\ Len(ops) = 1
    /\ cursor = 2 * bulkWriteChunkSize + 2

\* C18: in every interleaving of the goroutine of Node.Start with the
\* shutdown, DisconnectFromMongo runs on an established client: mongoClient
\* is not nil when Stop is about to dereference it
C18_StopFindsClient ==
    mainpc = "stopping" => mongoClient = "client"

\* C19: the read snapshot and its cursor are released once the scan and the
\* final flush are done: no read transaction is open while the goroutine
\* sleeps
C19_NoSnapshotWhileSleeping ==
    pc = "sleep" => ~txnOpen

\* C20: at the end of a pass, no bulk write having failed, the _ids of the
\* destination are exactly the keys of the records of the pass's snapshot
\* that yield a document, also when the node has removed records an earlier
\* pass had written
C20_ExactMirror ==
    (pc = "sleep" /\ failures = 0) =>
        Ids(collection) = YieldingKeys(snapshot)

-----------------------------------------------------------------------------
(* Properties of the dispatcher and the normalizer.                        *)

\* C4 as stated: for a record of a supported tag, whatever its key and
\* value, the dispatcher returns a document or none; it never aborts
C4_DecodeNeverAborts ==
    (dpc = "decoded" /\ dIn.key[1] \in (0..37) \cup {39, 40}) =>
        dOut.kind \in {"doc", "nil"}

\* C7 as stated: a second SimplifyMap on the map a first one returned
\* completes and changes no field but the Time fields
C7_SecondSimplifyChangesOnlyTime ==
    dpc = "resimplified" =>
        /\ nTwice.ok
        /\ StripTime(GoMap(nTwice.m)) = StripTime(GoMap(nOnce.m))

\* C8 as stated: every document the dispatcher returns has the string
\* fields MongoMeta and BadgerKeyPrefix
C8_MetadataOnEveryDocument ==
    (dpc = "decoded" /\ dOut.kind = "doc") =>
        /\ "MongoMeta" \in DOMAIN dOut.doc.v
        /\ dOut.doc.v["MongoMeta"].j = "string"
        /\ "BadgerKeyPrefix" \in DOMAIN dOut.doc.v
        /\ dOut.doc.v["BadgerKeyPrefix"].j = "string"

\* The string s is a name followed by ":" and the decimal number t
HasTagSuffix(s, t) ==
    /\ Len(s) > Len(":" \o ToString(t))
    /\ SubSeq(s, Len(s) - Len(ToString(t)), Len(s)) = ":" \o ToString(t)

\* C9 as stated: the BadgerKeyPrefix of a document returned for a record of
\* tag t is "<TagName>:<TagNumber>" with the number equal to t
C9_PrefixNamesTheTag ==
    (/\ dpc = "decoded"
     /\ dOut.kind = "doc"
     /\ "BadgerKeyPrefix" \in DOMAIN dOut.doc.v) =>
        HasTagSuffix(dOut.doc.v["BadgerKeyPrefix"].v, dIn.key[1])

\* C15: SimplifyMap returns on every map the dispatcher builds, also one
\* with a nil field value or a nil typed pointer (a nil block hash inside
\* Header, a nil PKID under HODLerPKID or CreatorPKID)
C15_SimplifyNeverFails ==
    dpc = "simplified" => nOnce.ok

\* The record of the inverse like index (tag 31) for the like that a record
\* of the like index (tag 30) stands for
InverseLike(rec) ==
    Rec(<<31>> \o SubSeq(rec.key, 35, 66) \o SubSeq(rec.key, 2, 34),
        rec.kcap, rec.val, rec.gob, rec.vlogOk)

\* C21: the tag-30 record and the tag-31 record of one like decode to the
\* same PublicKey and the same LikedPostHash, each taken from its own range
\* of the key: the 33 bytes of the public key and the 32 bytes of the post
\* hash
C21_LikeAndInverseAgree ==
    (dpc = "decoded" /\ dIn.key[1] = 30 /\ Len(dIn.key) = 66) =>
        /\ dOut.kind = "doc"
        /\ BadgerItrToJSON(InverseLike(dIn), clock).kind = "doc"
        /\ BadgerItrToJSON(InverseLike(dIn), clock).doc.v["LikedPostHash"] =
               dOut.doc.v["LikedPostHash"]
        /\ BadgerItrToJSON(InverseLike(dIn), clock).doc.v["PublicKey"] =
               dOut.doc.v["PublicKey"]

====
